---- MODULE Spec2Model ----
(***************************************************************************)
(* Montelukast risk assessment engine (src/script.js, weeks variant,       *)
(* lines 1-354): RiskEngine.calculate and its helpers, and the controller  *)
(* that calls it and animates the score, with the arithmetic of JavaScript *)
(* numbers (IEEE-754 binary64, round to nearest, ties to even) carried out *)
(* on the 53-bit significands.                                             *)
(***************************************************************************)
EXTENDS Integers, Sequences, FiniteSets

(***************************************************************************)
(* Natural numbers of any size: little-endian sequences of limbs.          *)
(***************************************************************************)
Radix == 2^14

RECURSIVE BigTrim(_)
\* the same natural without leading zero limbs (<< >> is zero)
BigTrim(a) ==
    IF Len(a) = 0 THEN a
    ELSE IF a[Len(a)] = 0 THEN BigTrim(SubSeq(a, 1, Len(a) - 1)) ELSE a

RECURSIVE BigOfInt(_)
BigOfInt(n) == IF n = 0 THEN << >> ELSE <<n % Radix>> \o BigOfInt(n \div Radix)

BigLimb(a, i) == IF i >= 1 /\ i <= Len(a) THEN a[i] ELSE 0

RECURSIVE BigCarry(_, _, _)
\* propagate carries through the column sums cols, from column i on
BigCarry(cols, i, carry) ==
    IF i > Len(cols)
    THEN BigOfInt(carry)
    ELSE <<(cols[i] + carry) % Radix>>
         \o BigCarry(cols, i + 1, (cols[i] + carry) \div Radix)

RECURSIVE SumTo(_, _, _)
SumTo(f, lo, hi) == IF lo > hi THEN 0 ELSE f[lo] + SumTo(f, lo + 1, hi)

BigAdd(a, b) ==
    LET n == IF Len(a) > Len(b) THEN Len(a) ELSE Len(b)
    IN  BigTrim(BigCarry([i \in 1..n |-> BigLimb(a, i) + BigLimb(b, i)], 1, 0))

\* schoolbook product; both factors have at most 4 limbs, so that a column
\* sum stays below 2^31
BigMul(a, b) ==
    IF Len(a) = 0 \/ Len(b) = 0 THEN << >>
    ELSE LET n == Len(a) + Len(b) - 1
             col(k) == LET lo == IF k - Len(b) + 1 > 1 THEN k - Len(b) + 1 ELSE 1
                           hi == IF k < Len(a) THEN k ELSE Len(a)
                       IN  SumTo([i \in lo..hi |-> a[i] * b[k - i + 1]], lo, hi)
         IN  BigTrim(BigCarry([k \in 1..n |-> col(k)], 1, 0))

RECURSIVE BigBorrow(_, _, _, _)
\* the limbs of a - b from limb i on, borrow being owed to limb i
BigBorrow(a, b, i, borrow) ==
    IF i > Len(a) THEN << >>
    ELSE LET d == a[i] - BigLimb(b, i) - borrow
         IN  IF d < 0 THEN <<d + Radix>> \o BigBorrow(a, b, i + 1, 1)
             ELSE <<d>> \o BigBorrow(a, b, i + 1, 0)

\* a - b, for a >= b
BigSub(a, b) == BigTrim(BigBorrow(a, b, 1, 0))

RECURSIVE IntBitLen(_)
IntBitLen(n) == IF n = 0 THEN 0 ELSE 1 + IntBitLen(n \div 2)

\* number of significant bits of a trimmed natural
BigBitLen(a) == IF Len(a) = 0 THEN 0 ELSE 14 * (Len(a) - 1) + IntBitLen(a[Len(a)])

\* a * 2^s
BigShl(a, s) ==
    IF Len(a) = 0 THEN a
    ELSE LET q == s \div 14
             f == 2^(s % 14)
         IN  BigTrim([i \in 1..q |-> 0] \o BigCarry([i \in 1..Len(a) |-> a[i] * f], 1, 0))

\* floor(a / 2^s)
BigShr(a, s) ==
    LET q == s \div 14
        r == s % 14
        n == Len(a) - q
    IN  IF n <= 0 THEN << >>
        ELSE BigTrim([i \in 1..n |->
                 (a[i + q] \div 2^r) + (BigLimb(a, i + q + 1) % 2^r) * 2^(14 - r)])

\* bit i of a (bit 0 is the least significant)
BigBit(a, i) == (BigLimb(a, i \div 14 + 1) \div 2^(i % 14)) % 2

\* a mod 2^s # 0
BigLowBits(a, s) ==
    \E i \in 1..Len(a) :
        \/ i <= s \div 14 /\ a[i] # 0
        \/ i = s \div 14 + 1 /\ a[i] % 2^(s % 14) # 0

RECURSIVE BigLess(_, _)
\* a < b, for trimmed naturals
BigLess(a, b) ==
    IF Len(a) # Len(b) THEN Len(a) < Len(b)
    ELSE IF Len(a) = 0 THEN FALSE
    ELSE IF a[Len(a)] # b[Len(b)] THEN a[Len(a)] < b[Len(b)]
    ELSE BigLess(BigTrim(SubSeq(a, 1, Len(a) - 1)), BigTrim(SubSeq(b, 1, Len(b) - 1)))

RECURSIVE BigDivRem(_, _, _, _)
\* long division of a by the small d, from limb i down; <<quotient limbs
\* (most significant first), remainder>>
BigDivRem(a, d, i, rem) ==
    IF i = 0 THEN <<<< >>, rem>>
    ELSE LET cur  == rem * Radix + a[i]
             rest == BigDivRem(a, d, i - 1, cur % d)
         IN  <<<<cur \div d>> \o rest[1], rest[2]>>

RECURSIVE Reverse(_)
Reverse(s) == IF Len(s) = 0 THEN s ELSE Append(Reverse(Tail(s)), Head(s))

(***************************************************************************)
(* JavaScript numbers that the script can produce: NaN, zero, and positive *)
(* binary64 values m * 2^e with a significand m of exactly 53 bits.        *)
(***************************************************************************)
NaN == [nan |-> TRUE, m |-> << >>, e |-> 0]

Zero == [nan |-> FALSE, m |-> << >>, e |-> 0]

\* the binary64 value nearest to N * 2^e (plus, when sticky, a positive
\* amount below one unit of N): round to nearest, ties to even
RoundBig(N, e, sticky) ==
    LET L == BigBitLen(N)
    IN  IF L = 0 THEN Zero
        ELSE IF L <= 53
        THEN [nan |-> FALSE, m |-> BigShl(N, 53 - L), e |-> e - (53 - L)]
        ELSE LET s    == L - 53
                 Q    == BigShr(N, s)
                 half == BigBit(N, s - 1) = 1
                 low  == BigLowBits(N, s - 1) \/ sticky
                 up   == half /\ (low \/ BigBit(Q, 0) = 1)
                 R    == IF up THEN BigAdd(Q, <<1>>) ELSE Q
             IN  IF BigBitLen(R) > 53
                 THEN [nan |-> FALSE, m |-> BigShr(R, 1), e |-> e + s + 1]
                 ELSE [nan |-> FALSE, m |-> R, e |-> e + s]

\* the number a decimal literal n/d of the source denotes (n, d > 0)
Dec(n, d) ==
    LET qr == BigDivRem(BigShl(BigOfInt(n), 70), d, Len(BigShl(BigOfInt(n), 70)), 0)
    IN  RoundBig(BigTrim(Reverse(qr[1])), 0 - 70, qr[2] # 0)

IsZero(x) == ~x.nan /\ Len(x.m) = 0

\* x * y
FMul(x, y) ==
    IF x.nan \/ y.nan THEN NaN
    ELSE IF IsZero(x) \/ IsZero(y) THEN Zero
    ELSE RoundBig(BigMul(x.m, y.m), x.e + y.e, FALSE)

\* x + y
FAdd(x, y) ==
    IF x.nan \/ y.nan THEN NaN
    ELSE IF IsZero(x) THEN y
    ELSE IF IsZero(y) THEN x
    ELSE LET e == IF x.e < y.e THEN x.e ELSE y.e
         IN  RoundBig(BigAdd(BigShl(x.m, x.e - e), BigShl(y.m, y.e - e)), e, FALSE)

\* x - y, for x >= y
FSub(x, y) ==
    IF x.nan \/ y.nan THEN NaN
    ELSE IF IsZero(y) THEN x
    ELSE LET e == IF x.e < y.e THEN x.e ELSE y.e
         IN  RoundBig(BigSub(BigShl(x.m, x.e - e), BigShl(y.m, y.e - e)), e, FALSE)

\* x < y (false when either is NaN)
FLess(x, y) ==
    IF x.nan \/ y.nan THEN FALSE
    ELSE IF IsZero(y) THEN FALSE
    ELSE IF IsZero(x) THEN TRUE
    ELSE LET e == IF x.e < y.e THEN x.e ELSE y.e
         IN  BigLess(BigShl(x.m, x.e - e), BigShl(y.m, y.e - e))

\* x > y, x >= y, x <= y as JavaScript evaluates them
FGreater(x, y) == FLess(y, x)

FGeq(x, y) == ~x.nan /\ ~y.nan /\ ~FLess(x, y)

FLeq(x, y) == ~x.nan /\ ~y.nan /\ ~FLess(y, x)

\* Math.max(x, y)
MathMax(x, y) == IF x.nan \/ y.nan THEN NaN ELSE IF FLess(x, y) THEN y ELSE x

RECURSIVE BigToInt(_)
BigToInt(a) == IF Len(a) = 0 THEN 0 ELSE a[1] + Radix * BigToInt(Tail(a))

\* integer results of Math.round: an integer or NaN
IntNum(v) == [nan |-> FALSE, v |-> v]

NaNInt == [nan |-> TRUE, v |-> 0]

\* Math.round(x): the nearest integer, a tie going up (x is never negative)
MathRound(x) ==
    IF x.nan THEN NaNInt
    ELSE IF IsZero(x) THEN IntNum(0)
    ELSE IF x.e >= 0 THEN IntNum(BigToInt(BigShl(x.m, x.e)))
    ELSE IntNum(BigToInt(BigShr(x.m, 0 - x.e)) + BigBit(x.m, 0 - x.e - 1))

\* Math.floor(x) (x is never negative)
MathFloor(x) ==
    IF x.nan THEN NaNInt
    ELSE IF IsZero(x) THEN IntNum(0)
    ELSE IF x.e >= 0 THEN IntNum(BigToInt(BigShl(x.m, x.e)))
    ELSE IntNum(BigToInt(BigShr(x.m, 0 - x.e)))

\* the number an integer result denotes
NumberOf(i) == IF i.nan THEN NaN ELSE Dec(i.v, 1)

(***************************************************************************)
(* Text, as a sequence of characters: the digits of the numbers the page   *)
(* shows and the form holds.                                               *)
(***************************************************************************)
Digit == <<"0", "1", "2", "3", "4", "5", "6", "7", "8", "9">>

IsDigit(c) == \E i \in 1..10 : Digit[i] = c

DigitValue(c) == CHOOSE v \in 0..9 : Digit[v + 1] = c

RECURSIVE DigitsOf(_)
\* the decimal digits of a natural number
DigitsOf(n) == IF n < 10 THEN <<Digit[n + 1]>> ELSE Append(DigitsOf(n \div 10), Digit[(n % 10) + 1])

\* the text an integer result becomes when assigned to innerHTML
NumberToString(i) == IF i.nan THEN <<"N", "a", "N">> ELSE DigitsOf(i.v)

RECURSIVE LeadingDigits(_, _)
\* the value of the digits text starts with, after those counted in acc
LeadingDigits(text, acc) ==
    IF text = << >> \/ ~IsDigit(Head(text)) THEN acc
    ELSE LeadingDigits(Tail(text), 10 * acc + DigitValue(Head(text)))

\* parseInt(text): the integer text starts with, NaN if it starts with none
\* (the texts here carry no sign and no blanks)
parseInt(text) ==
    IF text = << >> \/ ~IsDigit(Head(text)) THEN NaNInt
    ELSE IntNum(LeadingDigits(text, 0))

\* parseFloat(text), for the same texts (they carry no decimal point)
parseFloat(text) == NumberOf(parseInt(text))

(***************************************************************************)
(* JavaScript values passed to and handled by the engine.  A string is     *)
(* either empty or not numeric; a number is NaN, zero or positive; "object"*)
(* stands for the functions and objects inherited from Object.prototype.   *)
(***************************************************************************)
Undefined == [t |-> "undefined", n |-> Zero, s |-> ""]

Null == [t |-> "null", n |-> Zero, s |-> ""]

Num(d) == [t |-> "number", n |-> d, s |-> ""]

Str(str) == [t |-> "string", n |-> Zero, s |-> str]

Obj == [t |-> "object", n |-> Zero, s |-> ""]

\* ToBoolean, as `!v`, `v || d` and `if (v)` apply it
Truthy(v) ==
    CASE v.t = "number" -> ~v.n.nan /\ ~IsZero(v.n)
      [] v.t = "string" -> v.s # ""
      [] v.t = "object" -> TRUE
      [] OTHER          -> FALSE

\* ToNumber, as the arithmetic and relational operators apply it
ToNumber(v) ==
    CASE v.t = "number" -> v.n
      [] v.t = "null"   -> Zero
      [] v.t = "string" -> IF v.s = "" THEN Zero ELSE NaN
      [] OTHER          -> NaN

\* a === b
StrictEq(a, b) ==
    /\ a.t = b.t
    /\ a.t = "number" => ~a.n.nan /\ ~b.n.nan /\ a.n = b.n
    /\ a.t = "string" => a.s = b.s
    /\ a.t = "object" => FALSE

\* a || b
JsOr(a, b) == IF Truthy(a) THEN a ELSE b

\* the property key a value is converted to in obj[v]
ToPropertyKey(v) ==
    CASE v.t = "string"    -> v.s
      [] v.t = "undefined" -> "undefined"
      [] v.t = "null"      -> "null"

\* the properties every object literal inherits from Object.prototype
ObjectPrototypeKeys ==
    {"constructor", "toString", "toLocaleString", "valueOf", "hasOwnProperty",
     "isPrototypeOf", "propertyIsEnumerable", "__proto__",
     "__defineGetter__", "__defineSetter__", "__lookupGetter__", "__lookupSetter__"}

\* obj[key] for a table obj of numbers: an own property, else an inherited
\* one, else undefined
GetProp(obj, key) ==
    IF key \in DOMAIN obj THEN Num(obj[key])
    ELSE IF key \in ObjectPrototypeKeys THEN Obj
    ELSE Undefined

(***************************************************************************)
(* RiskEngine: the reference tables.                                       *)
(***************************************************************************)
AGE_BASELINES ==
    [k \in {"16-18", "13-15", "10-12", "7-9", "4-6", "1-3"} |->
        CASE k = "16-18" -> Dec(14, 100)
          [] k = "13-15" -> Dec(325, 1000)
          [] k = "10-12" -> Dec(535, 1000)
          [] k = "7-9"   -> Dec(69, 100)
          [] k = "4-6"   -> Dec(85, 100)
          [] k = "1-3"   -> Dec(94, 100)]

DOSE_MULTIPLIERS ==
    [k \in {"4mg", "5mg", "10mg"} |->
        CASE k = "4mg"  -> Dec(10, 10)
          [] k = "5mg"  -> Dec(11, 10)
          [] k = "10mg" -> Dec(125, 100)]

DURATION_MULTIPLIERS ==
    [k \in {"short", "medium", "long"} |->
        CASE k = "short"  -> Dec(10, 10)
          [] k = "medium" -> Dec(11, 10)
          [] k = "long"   -> Dec(12, 10)]

HIGH_RISK ==
    <<"Suicidal ideation / self-harm thoughts", "Suicide attempt",
     "Severe depression", "Psychosis / hallucinations",
     "Severe aggression or violent behavior", "Extreme mood swings",
     "Severe anxiety with panic attacks", "Personality changes (sudden, marked)",
     "Disorientation / confusion", "Loss of reality contact",
     "Behavioral regression (in children)">>

MODERATE_LOW_RISK ==
    <<"Anxiety", "Depression (mild-moderate)", "Irritability",
     "Aggressive behavior", "Emotional lability", "Night terrors",
     "Severe insomnia", "Social withdrawal",
     "Poor concentration / attention issues", "Sleep disturbance",
     "Restlessness", "Nightmares", "Crying spells", "Fatigue",
     "Headache with mood change", "Appetite changes", "Mild mood changes">>

\* the RiskEngine object as the script creates it; calculate reaches its
\* tables through this
RiskEngine ==
    [AGE_BASELINES        |-> AGE_BASELINES,
     DOSE_MULTIPLIERS     |-> DOSE_MULTIPLIERS,
     DURATION_MULTIPLIERS |-> DURATION_MULTIPLIERS,
     SYMPTOMS             |-> [HIGH_RISK         |-> HIGH_RISK,
                               MODERATE_LOW_RISK |-> MODERATE_LOW_RISK]]

(***************************************************************************)
(* The numeric literals of the engine.                                     *)
(***************************************************************************)
DEFAULT_BASELINE == Dec(14, 100)

DEFAULT_MULTIPLIER == Dec(10, 10)

AGE_16 == Dec(16, 1)

AGE_13 == Dec(13, 1)

AGE_10 == Dec(10, 1)

AGE_7 == Dec(7, 1)

AGE_4 == Dec(4, 1)

WEEKS_4 == Dec(4, 1)

WEEKS_24 == Dec(24, 1)

ADDER_HIGH == Dec(25, 100)

ADDER_MODERATE == Dec(10, 100)

ADDER_LOW == Dec(5, 100)

SEVERITY_FLOOR == Dec(75, 100)

TEMPORAL_BOOST == Dec(115, 100)

CRITICAL_COMBO_RISK == Dec(96, 100)

CLAMP_MAX == Dec(99, 100)

CLAMP_MIN == Dec(5, 100)

HIGH_CUT == Dec(70, 100)

MODERATE_CUT == Dec(30, 100)

HUNDRED == Dec(100, 1)

(***************************************************************************)
(* RiskEngine: the helpers.                                                *)
(***************************************************************************)
\* getAgeGroupKey with every bound exclusive (> for >=)
getAgeGroupKey_Exclusive(age) ==
    IF ~Truthy(age) THEN "7-9"
    ELSE IF FGreater(ToNumber(age), AGE_16) THEN "16-18"
    ELSE IF FGreater(ToNumber(age), AGE_13) THEN "13-15"
    ELSE IF FGreater(ToNumber(age), AGE_10) THEN "10-12"
    ELSE IF FGreater(ToNumber(age), AGE_7) THEN "7-9"
    ELSE IF FGreater(ToNumber(age), AGE_4) THEN "4-6"
    ELSE "1-3"

getAgeGroupKey(age) ==
    IF ~Truthy(age) THEN "7-9"
    ELSE IF FGeq(ToNumber(age), AGE_16) THEN "16-18"
    ELSE IF FGeq(ToNumber(age), AGE_13) THEN "13-15"
    ELSE IF FGeq(ToNumber(age), AGE_10) THEN "10-12"
    ELSE IF FGeq(ToNumber(age), AGE_7) THEN "7-9"
    ELSE IF FGeq(ToNumber(age), AGE_4) THEN "4-6"
    ELSE "1-3"

getDurationKey(weeks) ==
    IF StrictEq(weeks, Str("")) \/ StrictEq(weeks, Null) THEN "medium"
    ELSE IF FLess(ToNumber(weeks), WEEKS_4) THEN "short"
    ELSE IF FLeq(ToNumber(weeks), WEEKS_24) THEN "medium"
    ELSE "long"

(***************************************************************************)
(* RiskEngine.calculate.  An array argument is [t |-> "array", a |-> the   *)
(* elements]; an absent one is UndefinedArray.                             *)
(***************************************************************************)
Array(elems) == [t |-> "array", a |-> elems]

UndefinedArray == [t |-> "undefined", a |-> << >>]

\* Array.prototype.includes
includes(list, x) == \E i \in 1..Len(list) : list[i] = x

\* 1. the baseline of the age group
baseRiskOf(self, ageInput) ==
    ToNumber(JsOr(GetProp(self.AGE_BASELINES, getAgeGroupKey(ageInput)), Num(DEFAULT_BASELINE)))

\* 2. the dose and duration multipliers
doseMultOf(self, dose) ==
    JsOr(GetProp(self.DOSE_MULTIPLIERS, ToPropertyKey(dose)), Num(DEFAULT_MULTIPLIER))

durMultOf(self, durationWeeks) ==
    JsOr(GetProp(self.DURATION_MULTIPLIERS, getDurationKey(durationWeeks)), Num(DEFAULT_MULTIPLIER))

\* the count rule with its middle bound exclusive (> 2 for >= 2)
countRule_Exclusive(symptomCount) ==
    IF symptomCount >= 4
    THEN [symptomRiskCategory |-> "High", symptomAdder |-> ADDER_HIGH]
    ELSE IF symptomCount > 2
    THEN [symptomRiskCategory |-> "Moderate", symptomAdder |-> ADDER_MODERATE]
    ELSE IF symptomCount = 1
    THEN [symptomRiskCategory |-> "Low", symptomAdder |-> ADDER_LOW]
    ELSE [symptomRiskCategory |-> "Low", symptomAdder |-> Zero]

\* 3. the count rule: the category and the adder of a symptom count
countRule(symptomCount) ==
    IF symptomCount >= 4
    THEN [symptomRiskCategory |-> "High", symptomAdder |-> ADDER_HIGH]
    ELSE IF symptomCount >= 2
    THEN [symptomRiskCategory |-> "Moderate", symptomAdder |-> ADDER_MODERATE]
    ELSE IF symptomCount = 1
    THEN [symptomRiskCategory |-> "Low", symptomAdder |-> ADDER_LOW]
    ELSE [symptomRiskCategory |-> "Low", symptomAdder |-> Zero]

\* 4. the severity boost
hasHighSeverityOf(self, selectedSymptoms) ==
    \E i \in 1..Len(selectedSymptoms) : includes(self.SYMPTOMS.HIGH_RISK, selectedSymptoms[i])

severityBoost(currentRisk, hasHighSeverity) ==
    IF hasHighSeverity THEN MathMax(currentRisk, SEVERITY_FLOOR) ELSE currentRisk

\* the temporal rule adding 0.15 instead of multiplying by 1.15
temporalRule_Additive(currentRisk, temporalAssociation) ==
    IF temporalAssociation THEN FAdd(currentRisk, Dec(15, 100)) ELSE currentRisk

\* 5. the temporal relation rule
temporalRule(currentRisk, temporalAssociation) ==
    IF temporalAssociation THEN FMul(currentRisk, TEMPORAL_BOOST) ELSE currentRisk

\* 6. the special drug combination rule (comboDrugs is an array here)
isCriticalComboOf(brand, comboDrugs) ==
    StrictEq(brand, Str("Almont")) /\ includes(comboDrugs.a, "Levocetirizine")

\* the combination rule raising the risk to 0.96 instead of setting it
comboRule_AtLeast(currentRisk, isCriticalCombo) ==
    IF isCriticalCombo THEN MathMax(currentRisk, CRITICAL_COMBO_RISK) ELSE currentRisk

comboRule(currentRisk, isCriticalCombo) ==
    IF isCriticalCombo THEN CRITICAL_COMBO_RISK ELSE currentRisk

\* 7. clamping
clamp(currentRisk) ==
    LET r == IF FGreater(currentRisk, CLAMP_MAX) THEN CLAMP_MAX ELSE currentRisk
    IN  IF FLess(r, CLAMP_MIN) THEN CLAMP_MIN ELSE r

\* the final label with the severity floor 0.75 taken for the high cut
finalLabelOf_SeverityCut(currentRisk) ==
    IF FGeq(currentRisk, SEVERITY_FLOOR) THEN "High Risk"
    ELSE IF FGeq(currentRisk, MODERATE_CUT) THEN "Moderate Risk"
    ELSE "Low Risk"

\* 8. the final label
finalLabelOf(currentRisk) ==
    IF FGeq(currentRisk, HIGH_CUT) THEN "High Risk"
    ELSE IF FGeq(currentRisk, MODERATE_CUT) THEN "Moderate Risk"
    ELSE "Low Risk"

\* the arguments with which calculate throws a TypeError: the length of an
\* absent symptom list, or includes of an absent comboDrugs once the brand
\* is 'Almont'
calculateThrows(selectedSymptoms, brand, comboDrugs) ==
    \/ selectedSymptoms.t # "array"
    \/ StrictEq(brand, Str("Almont")) /\ comboDrugs.t # "array"

\* the local variables of calculate when it reaches its return statement;
\* self is the object calculate is a method of
calculateLocals(self, ageInput, dose, durationWeeks, selectedSymptoms, temporalAssociation, brand, comboDrugs) ==
    LET baseRisk        == baseRiskOf(self, ageInput)
        doseMult        == doseMultOf(self, dose)
        durMult         == durMultOf(self, durationWeeks)
        symptomCount    == Len(selectedSymptoms.a)
        count           == countRule(symptomCount)
        hasHighSeverity == hasHighSeverityOf(self, selectedSymptoms.a)
        isCriticalCombo == isCriticalComboOf(brand, comboDrugs)
        risk0 == FMul(FMul(baseRisk, ToNumber(doseMult)), ToNumber(durMult))
        risk3 == FAdd(risk0, count.symptomAdder)
        risk4 == severityBoost(risk3, hasHighSeverity)
        risk5 == temporalRule(risk4, temporalAssociation)
        risk6 == comboRule(risk5, isCriticalCombo)
        risk7 == clamp(risk6)
    IN  [ageGroup            |-> getAgeGroupKey(ageInput),
         duration            |-> getDurationKey(durationWeeks),
         baseRisk            |-> baseRisk,
         doseMult            |-> doseMult,
         durMult             |-> durMult,
         symptomCount        |-> symptomCount,
         symptomAdder        |-> count.symptomAdder,
         symptomRiskCategory |-> IF hasHighSeverity THEN "High (Severity)"
                                 ELSE count.symptomRiskCategory,
         hasHighSeverity     |-> hasHighSeverity,
         isCriticalCombo     |-> isCriticalCombo,
         currentRisk         |-> risk7,
         finalLabel          |-> finalLabelOf(risk7)]

\* the record calculate returns, from its local variables
returnValue(l) ==
    [percentage |-> MathRound(FMul(l.currentRisk, HUNDRED)),
     label      |-> l.finalLabel,
     details    |-> [base            |-> l.baseRisk,
                     symptomCat      |-> l.symptomRiskCategory,
                     hasHighSeverity |-> l.hasHighSeverity,
                     isCriticalCombo |-> l.isCriticalCombo]]

\* the objects calculate can reach, as a call leaves them: no statement of
\* the method assigns to a property of this or of an argument, and some,
\* includes and length leave their list as it is
calculateWrites(self, selectedSymptoms, comboDrugs) ==
    [engine           |-> self,
     selectedSymptoms |-> selectedSymptoms,
     comboDrugs       |-> comboDrugs]

(***************************************************************************)
(* The calls of calculate that are examined.  Core calls take every        *)
(* argument from the values the form offers and combine them freely; a     *)
(* sweep moves one argument (or the brand/comboDrugs pair) through a wider *)
(* set, absent and malformed values included, with the others at or near  *)
(* the values the controller starts from.                                  *)
(***************************************************************************)
MaxSymptoms == 4

SeqsUpTo(S, n) == UNION {[1..k -> S] : k \in 0..n}

CoreAges == {Num(Dec(a, 1)) : a \in {2, 5, 8, 11, 14, 17}}

CoreDoses == {Str("4mg"), Str("5mg"), Str("10mg")}

CoreDurations == {Num(Dec(w, 1)) : w \in {2, 12, 30}}

CoreSymptoms == {Array(l) : l \in SeqsUpTo({"Suicide attempt", "Anxiety"}, MaxSymptoms)}

CoreOptions == {Str("Singulair"), Str("Almont")}
               \X {Array(<< >>), Array(<<"Levocetirizine">>)}

AgeValues ==
    {Undefined, Null, Str(""), Str("abc"), Num(NaN), Num(Zero)}
    \cup {Num(Dec(a, 10)) : a \in {5, 10, 35, 40, 65, 70, 95, 100, 125, 130,
                                   155, 160, 180, 400}}

DoseValues ==
    {Undefined, Null, Str(""), Str("20mg"), Str("4MG"), Str("constructor"),
     Str("toString"), Str("__proto__")}

DurationValues ==
    {Undefined, Null, Str(""), Str("abc"), Num(NaN), Num(Zero)}
    \cup {Num(Dec(w, 10)) : w \in {5, 35, 40, 45, 240, 245, 250, 520}}

SymptomValues ==
    {UndefinedArray}
    \cup {Array(<<HIGH_RISK[i]>>) : i \in 1..Len(HIGH_RISK)}
    \cup {Array(<<MODERATE_LOW_RISK[i]>>) : i \in 1..Len(MODERATE_LOW_RISK)}
    \cup {Array(l) : l \in SeqsUpTo({"Cough"}, MaxSymptoms + 2)}
    \cup {Array(<<"Anxiety", "Cough", "Fatigue", HIGH_RISK[i]>>) : i \in 1..Len(HIGH_RISK)}
    \cup {Array(<<"suicide attempt">>), Array(<<"Anxiety", "Anxiety", "Suicide attempt ">>)}

OptionValues ==
    {Undefined, Null, Str(""), Str("almont"), Str("Almont"), Str("Singulair")}
    \X {UndefinedArray, Array(<< >>), Array(<<"Cetirizine">>),
        Array(<<"levocetirizine">>), Array(<<"Cetirizine", "Levocetirizine">>),
        Array(<<"Levocetirizine", "Levocetirizine">>)}

DefaultAges == {Num(Dec(8, 1))}

DefaultDoses == {Str("5mg")}

DefaultDurations == {Num(Dec(12, 1))}

DefaultSymptoms == {Array(<< >>), Array(<<"Suicide attempt">>)}

DefaultOptions == CoreOptions

\* <<ageInput, dose, durationWeeks, selectedSymptoms, temporalAssociation,
\*   <<brand, comboDrugs>>>>
ArgTuples ==
    (CoreAges \X CoreDoses \X CoreDurations \X CoreSymptoms \X BOOLEAN \X CoreOptions)
    \cup (AgeValues \X DefaultDoses \X DefaultDurations \X DefaultSymptoms \X BOOLEAN \X DefaultOptions)
    \cup (DefaultAges \X DoseValues \X DefaultDurations \X DefaultSymptoms \X BOOLEAN \X DefaultOptions)
    \cup (DefaultAges \X DefaultDoses \X DurationValues \X DefaultSymptoms \X BOOLEAN \X DefaultOptions)
    \cup (DefaultAges \X DefaultDoses \X DefaultDurations \X SymptomValues \X BOOLEAN \X DefaultOptions)
    \cup (DefaultAges \X DefaultDoses \X DefaultDurations \X DefaultSymptoms \X BOOLEAN \X OptionValues)

(***************************************************************************)
(* The controller: the state object, the elements of the page it reads and *)
(* writes, and the callbacks it has handed to requestAnimationFrame.       *)
(* Gender, height, weight and frequency are copied from the form and read  *)
(* by nothing; the circle, the colours, the explanation and the summary are*)
(* written and never read.  They are left out.                             *)
(***************************************************************************)
\* no value: a local or a result of a call that has not returned
None == [none |-> TRUE]

\* the state object as declared
DefaultState ==
    [age           |-> Num(Dec(8, 1)),
     brand         |-> Str("Singulair"),
     dose          |-> Str("5mg"),
     durationWeeks |-> Num(Dec(12, 1)),
     comboDrugs    |-> Array(<< >>),
     symptoms      |-> Array(<< >>),
     temporal      |-> TRUE]

\* the elements when the script looks them up: the form shows the values
\* the state object is declared with, no symptom is ticked, and the score
\* holds a number, which parseInt requires of it
LoadedEls ==
    [ageInput       |-> <<"8">>,
     brandInput     |-> "Singulair",
     doseInputs     |-> <<[value |-> "4mg", checked |-> FALSE],
                          [value |-> "5mg", checked |-> TRUE],
                          [value |-> "10mg", checked |-> FALSE]>>,
     durationInput  |-> <<"1", "2">>,
     comboChecks    |-> <<[value |-> "Levocetirizine", checked |-> FALSE]>>,
     temporalSelect |-> "yes",
     symptomsList   |-> << >>,
     riskScore      |-> <<"0">>,
     riskLabel      |-> ""]

RECURSIVE checkedDose(_, _)
\* the dose after the loop over the radio buttons: that of the last checked
\* one, the old dose if none is
checkedDose(radios, old) ==
    IF radios = << >> THEN old
    ELSE checkedDose(Tail(radios), IF Head(radios).checked THEN Str(Head(radios).value) ELSE old)

RECURSIVE checkedValues(_)
\* the values of the checked boxes, in document order
checkedValues(boxes) ==
    IF boxes = << >> THEN << >>
    ELSE (IF Head(boxes).checked THEN <<Head(boxes).value>> ELSE << >>)
         \o checkedValues(Tail(boxes))

\* updateState, up to its call of calculateAndRender: the state object read
\* again from the form e; symptomsList holds the values of its checked boxes
updateState(st, e) ==
    [age           |-> JsOr(Num(parseFloat(e.ageInput)), Num(Zero)),
     brand         |-> Str(e.brandInput),
     dose          |-> checkedDose(e.doseInputs, st.dose),
     durationWeeks |-> LET d == parseFloat(e.durationInput)
                       IN  IF d.nan THEN Num(Zero) ELSE Num(d),
     comboDrugs    |-> Array(checkedValues(e.comboChecks)),
     symptoms      |-> Array(e.symptomsList),
     temporal      |-> e.temporalSelect = "yes"]

\* the duration calculateAndRender passes to animateValue
ANIMATION_DURATION == 500

\* start === end for two integer results
SameNumber(start, end) == ~start.nan /\ ~end.nan /\ start.v = end.v

\* animateValue: nothing when start === end; otherwise step is handed to
\* requestAnimationFrame with its startTimestamp null.  A callback is kept as
\* the start and end it closes over, whether its startTimestamp is set, and
\* elapsed, the timestamp of the last frame less startTimestamp.
animateValue(callbacks, start, end) ==
    IF SameNumber(start, end) THEN callbacks
    ELSE Append(callbacks, [start |-> start, end |-> end, started |-> FALSE, elapsed |-> 0])

\* Math.floor(progress * (end - start) + start) with
\* progress = Math.min(elapsed / duration, 1); start and end are not negative
stepValue(start, end, elapsed) ==
    IF start.nan \/ end.nan THEN NaNInt
    ELSE LET progress == IF elapsed >= ANIMATION_DURATION THEN Dec(1, 1)
                         ELSE Dec(elapsed, ANIMATION_DURATION)
         IN  IF end.v >= start.v
             THEN MathFloor(FAdd(FMul(progress, Dec(end.v - start.v, 1)), Dec(start.v, 1)))
             ELSE MathFloor(FSub(Dec(start.v, 1), FMul(progress, Dec(start.v - end.v, 1))))

RECURSIVE runCallbacks(_, _, _, _)
\* one animation frame, dt after the one before: the callbacks run in the
\* order they were handed over, each writes the score and hands itself over
\* again while its progress is below 1.  The result is the text of the score
\* and the callbacks handed over for the next frame.
runCallbacks(callbacks, dt, text, kept) ==
    IF callbacks = << >> THEN [riskScore |-> text, frameCallbacks |-> kept]
    ELSE LET cb      == Head(callbacks)
             elapsed == IF cb.started THEN cb.elapsed + dt ELSE 0
             again   == [cb EXCEPT !.started = TRUE, !.elapsed = elapsed]
         IN  runCallbacks(Tail(callbacks), dt,
                          NumberToString(stepValue(cb.start, cb.end, elapsed)),
                          IF elapsed < ANIMATION_DURATION THEN Append(kept, again) ELSE kept)

(***************************************************************************)
(* The state: the RiskEngine object, the arguments of a call, where the    *)
(* call stands, the local variables it had on reaching its return          *)
(* statement, what it returned, the calls completed so far when calculate  *)
(* is called directly, and the controller's state object, elements and     *)
(* animation-frame callbacks.                                              *)
(***************************************************************************)
VARIABLES engine, ageInput, dose, durationWeeks, selectedSymptoms, temporalAssociation,
          brand, comboDrugs, pc, locals, result, log, state, els, frameCallbacks

args == <<ageInput, dose, durationWeeks, selectedSymptoms, temporalAssociation,
          brand, comboDrugs>>

vars == <<engine, ageInput, dose, durationWeeks, selectedSymptoms, temporalAssociation,
          brand, comboDrugs, pc, locals, result, log, state, els, frameCallbacks>>

controller == <<state, els, frameCallbacks>>

\* the script has run and calculate is called with the arguments of t
Loaded(t) ==
    /\ engine = RiskEngine
    /\ ageInput = t[1]
    /\ dose = t[2]
    /\ durationWeeks = t[3]
    /\ selectedSymptoms = t[4]
    /\ temporalAssociation = t[5]
    /\ brand = t[6][1]
    /\ comboDrugs = t[6][2]
    /\ pc = "called"
    /\ locals = None
    /\ result = None
    /\ log = << >>
    /\ state = DefaultState
    /\ els = LoadedEls
    /\ frameCallbacks = << >>

Init == \E t \in ArgTuples : Loaded(t)

\* the call runs: it throws a TypeError, or it returns its result record
Calculate ==
    /\ pc = "called"
    /\ IF calculateThrows(selectedSymptoms, brand, comboDrugs)
       THEN /\ pc' = "threw"
            /\ UNCHANGED <<engine, selectedSymptoms, comboDrugs, locals, result>>
       ELSE \E l \in {calculateLocals(engine, ageInput, dose, durationWeeks, selectedSymptoms, temporalAssociation, brand, comboDrugs)} :
            \E w \in {calculateWrites(engine, selectedSymptoms, comboDrugs)} :
                /\ pc' = "returned"
                /\ locals' = l
                /\ result' = returnValue(l)
                /\ engine' = w.engine
                /\ selectedSymptoms' = w.selectedSymptoms
                /\ comboDrugs' = w.comboDrugs
    /\ UNCHANGED <<ageInput, dose, durationWeeks, temporalAssociation, brand>>
    /\ log' = Append(log, [args |-> args, after |-> args', pc |-> pc', result |-> result'])
    /\ UNCHANGED controller

Next == Calculate

Spec == Init /\ [][Next]_vars

(***************************************************************************)
(* Calls one after another on the same RiskEngine object: once a call has  *)
(* returned or thrown, the caller calls again with arguments of its        *)
(* choice.                                                                 *)
(***************************************************************************)
MaxCalls == 3

\* the argument tuples of the repeated calls: the controller's first call,
\* other ages, doses, durations and lists, a dose name that is not in the
\* table, one inherited from Object.prototype, and an absent comboDrugs
CallTuples ==
    LET Singulair == <<Str("Singulair"), Array(<< >>)>>
        Almont    == <<Str("Almont"), Array(<<"Levocetirizine">>)>>
    IN  {<<Num(Dec(8, 1)), Str("5mg"), Num(Dec(12, 1)), Array(<< >>), TRUE, Singulair>>,
         <<Num(Dec(17, 1)), Str("4mg"), Num(Dec(2, 1)), Array(<<"Anxiety", "Fatigue">>), FALSE, Singulair>>,
         <<Num(Dec(2, 1)), Str("10mg"), Num(Dec(30, 1)), Array(<<"Suicide attempt">>), TRUE, Singulair>>,
         <<Num(Dec(14, 1)), Str("20mg"), Undefined, Array(<<"Anxiety">>), FALSE, Almont>>,
         <<Undefined, Str("constructor"), Num(Dec(12, 1)), Array(<< >>), FALSE, Singulair>>,
         <<Num(Dec(8, 1)), Str("5mg"), Num(Dec(12, 1)), Array(<< >>), TRUE,
           <<Str("Almont"), UndefinedArray>>>>}

InitCalls == \E t \in CallTuples : Loaded(t)

\* the next call, on the engine as the calls before it left it
CallAgain ==
    /\ pc \in {"returned", "threw"}
    /\ Len(log) < MaxCalls
    /\ \E t \in CallTuples :
          /\ ageInput' = t[1]
          /\ dose' = t[2]
          /\ durationWeeks' = t[3]
          /\ selectedSymptoms' = t[4]
          /\ temporalAssociation' = t[5]
          /\ brand' = t[6][1]
          /\ comboDrugs' = t[6][2]
    /\ pc' = "called"
    /\ locals' = None
    /\ result' = None
    /\ UNCHANGED <<engine, log>>
    /\ UNCHANGED controller

NextCalls == Calculate \/ CallAgain

SpecCalls == InitCalls /\ [][NextCalls]_vars

(***************************************************************************)
(* The page: the controller makes its initial run of updateState; from     *)
(* then on the user edits the form, each edit running updateState to its   *)
(* end, and the browser runs animation frames.                             *)
(***************************************************************************)
MaxPending == 2

\* the texts typed into the age field
AgeTexts == {<< >>, <<"1", "7">>, <<"8">>}

\* the times from one animation frame to the next, in milliseconds
FrameSteps == {100, 250}

\* the form after one input event: another age, the other answer to the
\* temporal question, or a change of a field the engine does not read
FormEdits(e) ==
    {[e EXCEPT !.ageInput = t] : t \in AgeTexts \ {e.ageInput}}
    \cup {[e EXCEPT !.temporalSelect = v] : v \in {"yes", "no"} \ {e.temporalSelect}}
    \cup {e}

\* the DOMContentLoaded listener has declared the state object, looked up
\* the elements and added its listeners, and is about to make its initial
\* call of updateState
InitController ==
    Loaded(<<DefaultState.age, DefaultState.dose, DefaultState.durationWeeks,
             DefaultState.symptoms, DefaultState.temporal,
             <<DefaultState.brand, DefaultState.comboDrugs>>>>)

\* updateState with the form as e, to its end: the state object is read from
\* the form and calculateAndRender calls calculate with it; if the call
\* returns, the label is written and animateValue is called with the number
\* the score shows; a TypeError ends the listener
UpdateState(e) ==
    /\ \E st \in {updateState(state, e)} :
          /\ ageInput' = st.age
          /\ dose' = st.dose
          /\ durationWeeks' = st.durationWeeks
          /\ temporalAssociation' = st.temporal
          /\ brand' = st.brand
          /\ IF calculateThrows(st.symptoms, st.brand, st.comboDrugs)
             THEN /\ pc' = "threw"
                  /\ locals' = None
                  /\ result' = None
                  /\ state' = st
                  /\ selectedSymptoms' = st.symptoms
                  /\ comboDrugs' = st.comboDrugs
                  /\ els' = e
                  /\ UNCHANGED <<engine, frameCallbacks>>
             ELSE \E l \in {calculateLocals(engine, st.age, st.dose, st.durationWeeks, st.symptoms, st.temporal, st.brand, st.comboDrugs)} :
                  \E r \in {returnValue(l)} :
                  \E w \in {calculateWrites(engine, st.symptoms, st.comboDrugs)} :
                      /\ pc' = "returned"
                      /\ locals' = l
                      /\ result' = r
                      /\ engine' = w.engine
                      /\ state' = [st EXCEPT !.symptoms = w.selectedSymptoms,
                                             !.comboDrugs = w.comboDrugs]
                      /\ selectedSymptoms' = w.selectedSymptoms
                      /\ comboDrugs' = w.comboDrugs
                      /\ els' = [e EXCEPT !.riskLabel = r.label]
                      /\ frameCallbacks' = animateValue(frameCallbacks, parseInt(e.riskScore),
                                                        r.percentage)
    /\ UNCHANGED log

\* the initial run of updateState, on the form as loaded
InitialRun ==
    /\ pc = "called"
    /\ UpdateState(els)

\* an input or change event: the form is edited and updateState runs
InputEvent ==
    /\ pc # "called"
    /\ Len(frameCallbacks) < MaxPending
    /\ \E e \in FormEdits(els) : UpdateState(e)

\* an animation frame: the callbacks handed over since the last one run
AnimationFrame ==
    /\ frameCallbacks # << >>
    /\ \E dt \in FrameSteps :
          \E f \in {runCallbacks(frameCallbacks, dt, els.riskScore, << >>)} :
              /\ els' = [els EXCEPT !.riskScore = f.riskScore]
              /\ frameCallbacks' = f.frameCallbacks
    /\ UNCHANGED <<engine, args, pc, locals, result, log, state>>

NextController == InitialRun \/ InputEvent \/ AnimationFrame

SpecController == InitController /\ [][NextController]_vars

(***************************************************************************)
(* Properties of calculate.                                                *)
(***************************************************************************)
Returned == pc = "returned"

\* the call at hand passes a symptom list with a HIGH_RISK name in it
HasCatalogHighRisk ==
    /\ selectedSymptoms.t = "array"
    /\ \E i \in 1..Len(selectedSymptoms.a), j \in 1..Len(HIGH_RISK) :
          selectedSymptoms.a[i] = HIGH_RISK[j]

\* the call at hand passes the critical combination
HasCriticalCombo ==
    /\ brand = Str("Almont")
    /\ comboDrugs.t = "array"
    /\ \E i \in 1..Len(comboDrugs.a) : comboDrugs.a[i] = "Levocetirizine"

\* C1: every result has a clamped risk fraction in [0.05, 0.99] and an
\* integer percentage in [5, 99].
C1_ResultInRange ==
    Returned =>
        /\ FGeq(locals.currentRisk, Dec(5, 100))
        /\ FLeq(locals.currentRisk, Dec(99, 100))
        /\ ~result.percentage.nan
        /\ result.percentage.v \in 5..99

\* C2: calculate is total: no call that passes a symptom list ends in an
\* exception, whether or not brand and comboDrugs are passed.
C2_NeverThrows == selectedSymptoms.t = "array" => pc # "threw"

\* C3: with a HIGH_RISK symptom in the list the clamped fraction is at least
\* 0.75 (the percentage at least 75), symptomCat is "High (Severity)" and
\* hasHighSeverity is true; without one, hasHighSeverity is false and
\* symptomCat is Low, Moderate or High.
C3_SeverityFloor ==
    Returned =>
        IF HasCatalogHighRisk
        THEN /\ FGeq(locals.currentRisk, Dec(75, 100))
             /\ ~result.percentage.nan
             /\ result.percentage.v >= 75
             /\ result.details.symptomCat = "High (Severity)"
             /\ result.details.hasHighSeverity
        ELSE /\ ~result.details.hasHighSeverity
             /\ result.details.symptomCat \in {"Low", "Moderate", "High"}

\* C4: with brand 'Almont' and 'Levocetirizine' among comboDrugs the result
\* is 96 / "High Risk" with isCriticalCombo true, whatever the other
\* arguments; in every other result isCriticalCombo is false.
C4_CriticalCombo ==
    Returned =>
        IF HasCriticalCombo
        THEN /\ result.percentage = IntNum(96)
             /\ result.label = "High Risk"
             /\ result.details.isCriticalCombo
        ELSE ~result.details.isCriticalCombo

C4_Witness ==
    /\ Returned
    /\ HasCriticalCombo
    /\ temporalAssociation
    /\ HasCatalogHighRisk
    /\ Len(selectedSymptoms.a) >= 4
    /\ result.percentage = IntNum(96)

\* the risk of the specification's algorithm, steps 3 to 6 and 8, from the
\* baseline, the multipliers and the adder of the call at hand
C5_Risk ==
    LET r3 == FMul(FMul(locals.baseRisk, ToNumber(locals.doseMult)),
                   ToNumber(locals.durMult))
        r4 == FAdd(r3, locals.symptomAdder)
        r5 == IF HasCatalogHighRisk /\ FLess(r4, Dec(75, 100)) THEN Dec(75, 100) ELSE r4
        r6 == IF temporalAssociation THEN FMul(r5, Dec(115, 100)) ELSE r5
    IN  IF FLess(r6, Dec(5, 100)) THEN Dec(5, 100)
        ELSE IF FLess(Dec(99, 100), r6) THEN Dec(99, 100)
        ELSE r6

C5_Example1 ==
    /\ ageInput = Num(Dec(8, 1))
    /\ dose = Str("5mg")
    /\ durationWeeks = Num(Dec(12, 1))
    /\ selectedSymptoms = Array(<< >>)
    /\ temporalAssociation

C5_Example2 ==
    /\ ageInput = Num(Dec(17, 1))
    /\ dose = Str("4mg")
    /\ durationWeeks = Num(Dec(2, 1))
    /\ selectedSymptoms = Array(<<"Anxiety">>)
    /\ ~temporalAssociation

\* C5: without the critical combination the percentage is
\* round(100 * clamp(r)), r being base * doseMult * durMult, plus the
\* symptom adder, raised to 0.75 with a HIGH_RISK symptom, times 1.15 with
\* a temporal association, in this order; (8, '5mg', 12, [], true) gives
\* 96 / "High Risk" and (17, '4mg', 2, ['Anxiety'], false) 19 / "Low Risk".
C5_OrderOfRules ==
    Returned /\ ~HasCriticalCombo =>
        /\ result.percentage = MathRound(FMul(C5_Risk, Dec(100, 1)))
        /\ C5_Example1 => result.percentage = IntNum(96) /\ result.label = "High Risk"
        /\ C5_Example2 => result.percentage = IntNum(19) /\ result.label = "Low Risk"

\* a call where the order of the rules shows: the adder, then the severity
\* floor, then the temporal factor, none of them hidden by the clamp
C5_Witness ==
    /\ Returned
    /\ ~HasCriticalCombo
    /\ HasCatalogHighRisk
    /\ temporalAssociation
    /\ Len(selectedSymptoms.a) >= 2
    /\ ageInput = Num(Dec(17, 1))
    /\ result.percentage = IntNum(86)

\* C6: the label is decided by the clamped fraction alone: "High Risk" iff
\* it is >= 0.70, "Moderate Risk" iff it is in [0.30, 0.70), "Low Risk" iff
\* it is < 0.30.
C6_LabelCutPoints ==
    Returned =>
        /\ result.label \in {"High Risk", "Moderate Risk", "Low Risk"}
        /\ result.label = "High Risk" <=> FGeq(locals.currentRisk, Dec(70, 100))
        /\ result.label = "Moderate Risk" <=>
              /\ FGeq(locals.currentRisk, Dec(30, 100))
              /\ FLess(locals.currentRisk, Dec(70, 100))
        /\ result.label = "Low Risk" <=> FLess(locals.currentRisk, Dec(30, 100))

\* the age passed is a number in [lo, hi)
AgeIn(lo, hi) ==
    /\ ageInput.t = "number"
    /\ FGeq(ageInput.n, Dec(lo, 1))
    /\ FLess(ageInput.n, Dec(hi, 1))

\* the age passed is falsy: absent, null, empty, NaN or 0
AgeFalsy == ageInput \in {Undefined, Null, Str(""), Num(NaN), Num(Zero)}

\* C7: details.base is 0.14 for an age >= 16, 0.325 in [13,16), 0.535 in
\* [10,13), 0.69 in [7,10), 0.85 in [4,7), 0.94 in [1,4), and 0.69 for a
\* falsy or absent age.
C7_AgeBaseline ==
    Returned =>
        /\ ageInput.t = "number" /\ FGeq(ageInput.n, Dec(16, 1))
              => result.details.base = Dec(14, 100)
        /\ AgeIn(13, 16) => result.details.base = Dec(325, 1000)
        /\ AgeIn(10, 13) => result.details.base = Dec(535, 1000)
        /\ AgeIn(7, 10) => result.details.base = Dec(69, 100)
        /\ AgeIn(4, 7) => result.details.base = Dec(85, 100)
        /\ AgeIn(1, 4) => result.details.base = Dec(94, 100)
        /\ AgeFalsy => result.details.base = Dec(69, 100)

\* an age at the lower end of a bracket and one just below it, and an
\* absent age
C7_Witness ==
    /\ Returned
    /\ \/ ageInput = Num(Dec(13, 1)) /\ result.details.base = Dec(325, 1000)
       \/ ageInput = Num(Dec(125, 10)) /\ result.details.base = Dec(535, 1000)
       \/ ageInput = Undefined /\ result.details.base = Dec(69, 100)

\* the duration passed is a number
DurationNumber == durationWeeks.t = "number" /\ ~durationWeeks.n.nan

\* the duration passed is missing or empty
DurationMissing == durationWeeks \in {Str(""), Null, Undefined}

\* C8: the duration category is 'short' below 4 weeks, 'medium' from 4 to
\* 24, 'long' above 24, and 'medium' for a missing or empty duration (an
\* empty string, null or an absent argument); the multiplier is 1.0, 1.1
\* or 1.2 accordingly.
C8_DurationCategory ==
    Returned =>
        /\ DurationNumber /\ FLess(durationWeeks.n, Dec(4, 1))
              => locals.duration = "short"
        /\ DurationNumber /\ FGeq(durationWeeks.n, Dec(4, 1))
                          /\ FLeq(durationWeeks.n, Dec(24, 1))
              => locals.duration = "medium"
        /\ DurationNumber /\ FLess(Dec(24, 1), durationWeeks.n)
              => locals.duration = "long"
        /\ DurationMissing => locals.duration = "medium"
        /\ locals.duration \in {"short", "medium", "long"}
        /\ locals.durMult = CASE locals.duration = "short"  -> Num(Dec(10, 10))
                              [] locals.duration = "medium" -> Num(Dec(11, 10))
                              [] locals.duration = "long"   -> Num(Dec(12, 10))

\* C9: the dose multiplier is 1.0 for '4mg', 1.1 for '5mg', 1.25 for '10mg'
\* and 1.0 for every other dose, absent or unrecognized.
C9_DoseMultiplier ==
    Returned =>
        locals.doseMult = CASE dose = Str("4mg")  -> Num(Dec(10, 10))
                            [] dose = Str("5mg")  -> Num(Dec(11, 10))
                            [] dose = Str("10mg") -> Num(Dec(125, 100))
                            [] OTHER              -> Num(Dec(10, 10))

\* the adder and the symptom-load category of a list of n symptoms
C10_Adder(n) ==
    CASE n = 0        -> Zero
      [] n = 1        -> Dec(5, 100)
      [] n \in {2, 3} -> Dec(10, 100)
      [] n >= 4       -> Dec(25, 100)

C10_Category(n) ==
    CASE n \in {0, 1} -> "Low"
      [] n \in {2, 3} -> "Moderate"
      [] n >= 4       -> "High"

\* C10: the adder and, before the severity escalation, the symptom-load
\* category are a step function of the length of the list, duplicates
\* counted: 0 -> 0 / "Low", 1 -> 0.05 / "Low", 2 or 3 -> 0.10 / "Moderate",
\* 4 or more -> 0.25 / "High".
C10_CountRule ==
    Returned =>
        LET n == Len(selectedSymptoms.a)
        IN  /\ locals.symptomCount = n
            /\ locals.symptomAdder = C10_Adder(n)
            /\ countRule(locals.symptomCount).symptomRiskCategory = C10_Category(n)
            /\ ~HasCatalogHighRisk => result.details.symptomCat = C10_Category(n)

\* a list of one name three times over, and a list of at least four
C10_Witness ==
    /\ Returned
    /\ \/ /\ selectedSymptoms = Array(<<"Anxiety", "Anxiety", "Anxiety">>)
          /\ locals.symptomAdder = Dec(10, 100)
          /\ result.details.symptomCat = "Moderate"
       \/ /\ Len(selectedSymptoms.a) >= 4
          /\ ~HasCatalogHighRisk
          /\ locals.symptomAdder = Dec(25, 100)
          /\ result.details.symptomCat = "High"

\* the percentage returned is a number and is at least n
PercentageGeq(n) == ~result.percentage.nan /\ result.percentage.v >= n

\* the percentage returned is a number and is below n
PercentageLess(n) == ~result.percentage.nan /\ result.percentage.v < n

\* C12: the label and the percentage of every result agree at the cut
\* points: "High Risk" iff percentage >= 70, "Moderate Risk" iff
\* 30 <= percentage < 70, "Low Risk" iff percentage < 30.
C12_LabelMatchesPercentage ==
    Returned =>
        /\ result.label = "High Risk" <=> PercentageGeq(70)
        /\ result.label = "Moderate Risk" <=> PercentageGeq(30) /\ PercentageLess(70)
        /\ result.label = "Low Risk" <=> PercentageLess(30)

\* C12, amended: the label follows from the percentage everywhere but at 70
\* and 30 themselves, which a fraction just under the cut also rounds to:
\* above 70 the label is "High Risk", at 70 "High Risk" or "Moderate Risk",
\* between 30 and 70 "Moderate Risk", at 30 "Moderate Risk" or "Low Risk",
\* below 30 "Low Risk".
C12_LabelFromPercentage ==
    Returned =>
        /\ PercentageGeq(71) => result.label = "High Risk"
        /\ result.percentage = IntNum(70) => result.label \in {"High Risk", "Moderate Risk"}
        /\ PercentageGeq(31) /\ PercentageLess(70) => result.label = "Moderate Risk"
        /\ result.percentage = IntNum(30) => result.label \in {"Moderate Risk", "Low Risk"}
        /\ PercentageLess(30) => result.label = "Low Risk"

\* a fraction under 0.70 that rounds to 70 percent: 0.325 * 1.25 * 1.1 + 0.25
C12_Witness ==
    /\ Returned
    /\ FLess(locals.currentRisk, HIGH_CUT)
    /\ result.percentage = IntNum(70)
    /\ result.label = "Moderate Risk"

\* the page is at rest: no callback is waiting for an animation frame
AtRest == frameCallbacks = << >>

\* C13: once no further input event occurs and every pending animation
\* frame has run, the number the riskScore element shows is the percentage
\* of the most recent result of calculate.
C13_ShowsLatestPercentage ==
    AtRest /\ Returned => parseInt(els.riskScore) = result.percentage

====
